---- MODULE Spec2Model ----
(***************************************************************************)
(* The frame streaming server of src/src/PythonStreamServer.cpp:           *)
(* the control thread (start/stop), the accept loop (serverThread), the    *)
(* capture threads (pushFrame) and the detached per-client threads         *)
(* (clientHandler / sendFrameToClient), over the shared fields of          *)
(* class PythonStreamServer.                                               *)
(***************************************************************************)
EXTENDS Integers, Sequences, FiniteSets, TLC

(***************************************************************************)
(* Bounds of the model.                                                    *)
(***************************************************************************)
\* the lifecycle specification (Spec): connections made and frame ids handed out
LifeConns == 1
LifeFrames == 1
\* the fan-out specification (SpecFan): frame ids handed out
FanFrames == 3
\* the racing-capture specification (SpecRace): frame ids handed out
RaceFrames == 3
\* the buffer specification (SpecBuf): frame ids handed out; the queue holds
\* MAX_QUEUE_SIZE frames, more pushes than that make eviction happen
BufFrames == 12
\* the wire-format specification (SpecWire): frame ids handed out
WireFrames == 2
\* the stalled-clients specification (SpecStalled): frame ids handed out
StalledFrames == 3
\* the failing-accept specification (SpecAccept): frame ids handed out
AcceptFrames == 1
\* the restart specification (SpecRestart): frame ids handed out
RestartFrames == 2
\* the drain specification (SpecDrain): frame ids handed out
DrainFrames == 2

(***************************************************************************)
(* Program constants.                                                      *)
(***************************************************************************)
\* PythonStreamServer.h:79  static const size_t MAX_QUEUE_SIZE = 10
MAX_QUEUE_SIZE == 10
\* a null pstData (PythonStreamServer.cpp:97, !pstData)
NULL == 0

\* the capture threads that call pushFrame (one per camera callback thread)
CaptureThreads == {1, 2}
\* the client threads that run clientHandler, in the order accepted
Handlers == {1, 2}
\* descriptor numbers the process can be given: the listener and one per client
FdNums == 3 .. (3 + Cardinality(Handlers))

VARIABLES
    \* fields of class PythonStreamServer
    m_server_socket, m_running, m_connected_clients, m_frame_counter,
    m_frame_queue, m_frame_mutex,
    \* the process's descriptor table: "free", "listen" or "client"
    fdtab,
    \* the control thread: where it is inside start()/stop(), and what the
    \* last call returned
    ctlPc, lastRet,
    \* the accept loop (m_server_thread)
    srvPc, srvFd, srvClient, acceptLoops, nConns,
    \* the capture threads inside pushFrame
    pPc, pstData, pTmp, pFrame,
    \* the client threads inside clientHandler / sendFrameToClient
    hPc, client_socket, h_frame, has_frame, h_part,
    \* what was written to each client's socket, one record per send() that
    \* wrote bytes: [frame_id, part, n, done, bytes], done when it completes a
    \* message
    wire,
    \* history: ids in the order assigned, appended to the queue, popped; and
    \* whether a frame was appended after some frame had been popped
    idLog, pushLog, popLog, pushAfterPop

srvFields == <<m_server_socket, m_running, m_connected_clients, m_frame_counter,
               m_frame_queue, m_frame_mutex>>
ctlVars == <<ctlPc, lastRet>>
srvVars == <<srvPc, srvFd, srvClient, acceptLoops, nConns>>
pVars == <<pPc, pstData, pTmp, pFrame>>
hVars == <<hPc, client_socket, h_frame, has_frame, h_part, wire>>
logs == <<idLog, pushLog, popLog, pushAfterPop>>
vars == <<srvFields, fdtab, ctlVars, srvVars, pVars, hVars, logs>>

(***************************************************************************)
(* Raw frames (AS_SDK_Data_s) and normalized frames (StreamFrame).         *)
(***************************************************************************)
Img(w, h, size, data) == [width |-> w, height |-> h, size |-> size, data |-> data]

NoImg == Img(0, 0, 0, <<>>)

\* The raw records the capture callback hands in, by address (1, 2, ...).
\* 1: depth only; 2: depth, RGB and IR; 3: a depth plane reporting size 0
\* with non-zero dimensions, and a point cloud (a modality not forwarded);
\* 4: a depth plane of 100 bytes; 5: no plane at all; 6: IR only, its buffer
\* longer than the size it reports.
RawTable ==
    << [depthImg |-> Img(2, 1, 2, <<11, 12>>), rgbImg |-> NoImg, irImg |-> NoImg,
        pointCloud |-> NoImg],
       [depthImg |-> Img(2, 1, 2, <<21, 22>>), rgbImg |-> Img(1, 1, 3, <<31, 32, 33>>),
        irImg |-> Img(1, 1, 1, <<41>>), pointCloud |-> NoImg],
       [depthImg |-> Img(4, 4, 0, <<>>), rgbImg |-> Img(1, 1, 3, <<51, 52, 53>>),
        irImg |-> NoImg, pointCloud |-> Img(1, 1, 1, <<61>>)],
       [depthImg |-> Img(300, 2, 100, [k \in 1 .. 100 |-> 100 + k]), rgbImg |-> NoImg,
        irImg |-> NoImg, pointCloud |-> NoImg],
       [depthImg |-> NoImg, rgbImg |-> NoImg, irImg |-> NoImg, pointCloud |-> NoImg],
       [depthImg |-> NoImg, rgbImg |-> Img(7, 7, 0, <<71>>),
        irImg |-> Img(2, 1, 2, <<81, 82, 83>>), pointCloud |-> NoImg] >>

\* memcpy(dst, src, n): the first n bytes of the source buffer
memcpy(src, n) == SubSeq(src, 1, n)

\* a default-constructed StreamFrame (modelled with zeroed fields)
NoFrame ==
    [timestamp |-> 0, frame_id |-> 0,
     depth_width |-> 0, depth_height |-> 0, depth_size |-> 0, depth_data |-> <<>>,
     rgb_width |-> 0, rgb_height |-> 0, rgb_size |-> 0, rgb_data |-> <<>>,
     ir_width |-> 0, ir_height |-> 0, ir_size |-> 0, ir_data |-> <<>>]

\* a conversion that copies the dimensions of a plane whatever its size
ConvertKeepsDimensions(raw, now, id) ==
    LET d == raw.depthImg
        c == raw.rgbImg
        i == raw.irImg
    IN  [timestamp |-> now, frame_id |-> id,
         depth_width  |-> d.width,
         depth_height |-> d.height,
         depth_size   |-> IF d.size > 0 THEN d.size ELSE 0,
         depth_data   |-> IF d.size > 0 THEN memcpy(d.data, d.size) ELSE <<>>,
         rgb_width  |-> c.width,
         rgb_height |-> c.height,
         rgb_size   |-> IF c.size > 0 THEN c.size ELSE 0,
         rgb_data   |-> IF c.size > 0 THEN memcpy(c.data, c.size) ELSE <<>>,
         ir_width  |-> i.width,
         ir_height |-> i.height,
         ir_size   |-> IF i.size > 0 THEN i.size ELSE 0,
         ir_data   |-> IF i.size > 0 THEN memcpy(i.data, i.size) ELSE <<>>]

\* convertToStreamFrame, given the clock reading and the value ++m_frame_counter
\* produced
convertToStreamFrame(raw, now, id) ==
    LET d == raw.depthImg
        c == raw.rgbImg
        i == raw.irImg
    IN  [timestamp |-> now, frame_id |-> id,
         depth_width  |-> IF d.size > 0 THEN d.width ELSE 0,
         depth_height |-> IF d.size > 0 THEN d.height ELSE 0,
         depth_size   |-> IF d.size > 0 THEN d.size ELSE 0,
         depth_data   |-> IF d.size > 0 THEN memcpy(d.data, d.size) ELSE <<>>,
         rgb_width  |-> IF c.size > 0 THEN c.width ELSE 0,
         rgb_height |-> IF c.size > 0 THEN c.height ELSE 0,
         rgb_size   |-> IF c.size > 0 THEN c.size ELSE 0,
         rgb_data   |-> IF c.size > 0 THEN memcpy(c.data, c.size) ELSE <<>>,
         ir_width  |-> IF i.size > 0 THEN i.width ELSE 0,
         ir_height |-> IF i.size > 0 THEN i.height ELSE 0,
         ir_size   |-> IF i.size > 0 THEN i.size ELSE 0,
         ir_data   |-> IF i.size > 0 THEN memcpy(i.data, i.size) ELSE <<>>]

(***************************************************************************)
(* Helpers over the shared state.                                          *)
(***************************************************************************)
Free == [kind |-> "free", id |-> 0]
PushOwner(t) == [kind |-> "push", id |-> t]
HandlerOwner(h) == [kind |-> "handler", id |-> h]

\* socket() / accept() return the lowest descriptor number not in use
LowestFree(tab) == CHOOSE f \in FdNums :
                      /\ tab[f] = "free"
                      /\ \A g \in FdNums : tab[g] = "free" => f <= g

HasFree(tab) == \E f \in FdNums : tab[f] = "free"

Listeners == {f \in FdNums : fdtab[f] = "listen"}

Ids(q) == [k \in 1 .. Len(q) |-> q[k].frame_id]

Init ==
    /\ m_server_socket = -1
    /\ m_running = FALSE
    /\ m_connected_clients = 0
    /\ m_frame_counter = 0
    /\ m_frame_queue = <<>>
    /\ m_frame_mutex = Free
    /\ fdtab = [f \in FdNums |-> "free"]
    /\ ctlPc = "idle"
    /\ lastRet = "none"
    /\ srvPc = "none"
    /\ srvFd = -1
    /\ srvClient = -1
    /\ acceptLoops = 0
    /\ nConns = 0
    /\ pPc = [t \in CaptureThreads |-> "idle"]
    /\ pstData = [t \in CaptureThreads |-> NULL]
    /\ pTmp = [t \in CaptureThreads |-> 0]
    /\ pFrame = [t \in CaptureThreads |-> NoFrame]
    /\ hPc = [h \in Handlers |-> "unborn"]
    /\ client_socket = [h \in Handlers |-> -1]
    /\ h_frame = [h \in Handlers |-> NoFrame]
    /\ has_frame = [h \in Handlers |-> FALSE]
    /\ h_part = [h \in Handlers |-> "none"]
    /\ wire = [h \in Handlers |-> <<>>]
    /\ idLog = <<>>
    /\ pushLog = <<>>
    /\ popLog = <<>>
    /\ pushAfterPop = FALSE

(***************************************************************************)
(* The control thread: start() and stop(), called one after the other.     *)
(***************************************************************************)
\* start() without its test of m_running
StartNeverRunning == FALSE

\* line 32: if (m_running) return true
StartAlreadyRunning == m_running

\* stop() without its test of m_running
StopAlwaysRunning == FALSE

\* line 78: if (!m_running) return
StopNotRunning == ~m_running

StartCall ==
    /\ ctlPc = "idle"
    /\ ctlPc' = "start_entry"
    /\ lastRet' = "none"
    /\ UNCHANGED <<srvFields, fdtab, srvVars, pVars, hVars, logs>>

\* lines 32-34: already running, return true
StartAlready ==
    /\ ctlPc = "start_entry"
    /\ StartAlreadyRunning
    /\ ctlPc' = "idle"
    /\ lastRet' = "start_already"
    /\ UNCHANGED <<srvFields, fdtab, srvVars, pVars, hVars, logs>>

\* a failure path of start() that returns without close(m_server_socket)
StartFailLeak(o) ==
    /\ ctlPc = "start_entry"
    /\ ~StartAlreadyRunning
    /\ o # "socket" => HasFree(fdtab)
    /\ m_server_socket' = IF o = "socket" THEN -1 ELSE LowestFree(fdtab)
    /\ fdtab' = IF o = "socket" THEN fdtab
                ELSE [fdtab EXCEPT ![LowestFree(fdtab)] = "listen"]
    /\ ctlPc' = "idle"
    /\ lastRet' = "start_failed"
    /\ UNCHANGED <<m_running, m_connected_clients, m_frame_counter, m_frame_queue,
                   m_frame_mutex, srvVars, pVars, hVars, logs>>

\* lines 37-68 when socket(), setsockopt(), bind() or listen() fails: socket()
\* failing leaves -1 in m_server_socket, the others close the descriptor and
\* leave its number there; start() returns false
StartFail(o) ==
    /\ ctlPc = "start_entry"
    /\ ~StartAlreadyRunning
    /\ o # "socket" => HasFree(fdtab)
    /\ m_server_socket' = IF o = "socket" THEN -1 ELSE LowestFree(fdtab)
    /\ ctlPc' = "idle"
    /\ lastRet' = "start_failed"
    /\ UNCHANGED <<m_running, m_connected_clients, m_frame_counter, m_frame_queue,
                   m_frame_mutex, fdtab, srvVars, pVars, hVars, logs>>

\* lines 37-68 when every call succeeds: the descriptor is bound and listening
StartOpen ==
    /\ ctlPc = "start_entry"
    /\ ~StartAlreadyRunning
    /\ HasFree(fdtab)
    /\ m_server_socket' = LowestFree(fdtab)
    /\ fdtab' = [fdtab EXCEPT ![LowestFree(fdtab)] = "listen"]
    /\ ctlPc' = "start_run"
    /\ UNCHANGED <<m_running, m_connected_clients, m_frame_counter, m_frame_queue,
                   m_frame_mutex, lastRet, srvVars, pVars, hVars, logs>>

\* lines 70-74: m_running = true, the accept loop's thread is created, return true
StartRun ==
    /\ ctlPc = "start_run"
    /\ m_running' = TRUE
    /\ srvPc' = "check"
    /\ acceptLoops' = acceptLoops + 1
    /\ ctlPc' = "idle"
    /\ lastRet' = "start_ok"
    /\ UNCHANGED <<m_server_socket, m_connected_clients, m_frame_counter, m_frame_queue,
                   m_frame_mutex, fdtab, srvFd, srvClient, nConns, pVars, hVars, logs>>

StopCall ==
    /\ ctlPc = "idle"
    /\ ctlPc' = "stop_entry"
    /\ lastRet' = "none"
    /\ UNCHANGED <<srvFields, fdtab, srvVars, pVars, hVars, logs>>

\* lines 78-82: return at once when not running, else m_running = false
StopEntry ==
    /\ ctlPc = "stop_entry"
    /\ IF StopNotRunning
       THEN /\ ctlPc' = "idle"
            /\ lastRet' = "stop_noop"
            /\ UNCHANGED m_running
       ELSE /\ m_running' = FALSE
            /\ ctlPc' = "stop_close"
            /\ UNCHANGED lastRet
    /\ UNCHANGED <<m_server_socket, m_connected_clients, m_frame_counter, m_frame_queue,
                   m_frame_mutex, fdtab, srvVars, pVars, hVars, logs>>

\* lines 84-87: close the listening descriptor and forget its number
StopClose ==
    /\ ctlPc = "stop_close"
    /\ IF m_server_socket >= 0
       THEN /\ fdtab' = [fdtab EXCEPT ![m_server_socket] = "free"]
            /\ m_server_socket' = -1
       ELSE UNCHANGED <<fdtab, m_server_socket>>
    /\ ctlPc' = "stop_join"
    /\ UNCHANGED <<m_running, m_connected_clients, m_frame_counter, m_frame_queue,
                   m_frame_mutex, lastRet, srvVars, pVars, hVars, logs>>

\* a stop() that empties the frame buffer before it returns
StopJoinClearsBuffer ==
    /\ ctlPc = "stop_join"
    /\ IF srvPc # "none"
       THEN /\ srvPc = "exited"
            /\ srvPc' = "none"
       ELSE UNCHANGED srvPc
    /\ ctlPc' = "idle"
    /\ lastRet' = "stop_done"
    /\ m_frame_queue' = <<>>
    /\ UNCHANGED <<m_server_socket, m_running, m_connected_clients, m_frame_counter,
                   m_frame_mutex, fdtab, srvFd, srvClient, acceptLoops, nConns,
                   pVars, hVars, logs>>

\* lines 89-93: join the accept loop's thread (waits until serverThread has
\* returned), then return
StopJoin ==
    /\ ctlPc = "stop_join"
    /\ IF srvPc # "none"
       THEN /\ srvPc = "exited"
            /\ srvPc' = "none"
       ELSE UNCHANGED srvPc
    /\ ctlPc' = "idle"
    /\ lastRet' = "stop_done"
    /\ UNCHANGED <<srvFields, fdtab, srvFd, srvClient, acceptLoops, nConns,
                   pVars, hVars, logs>>

(***************************************************************************)
(* serverThread: the accept loop.                                          *)
(***************************************************************************)
\* line 114: while (m_running)
SrvCheck ==
    /\ srvPc = "check"
    /\ IF m_running
       THEN srvPc' = "accept" /\ UNCHANGED acceptLoops
       ELSE srvPc' = "exited" /\ acceptLoops' = acceptLoops - 1
    /\ UNCHANGED <<srvFields, fdtab, ctlVars, srvFd, srvClient, nConns,
                   pVars, hVars, logs>>

\* line 118: accept(m_server_socket, ...) is entered.  On a number that is no
\* listening descriptor (-1, or closed by stop()) it fails at once; otherwise
\* the thread blocks in accept on that descriptor.
SrvAcceptCall ==
    /\ srvPc = "accept"
    /\ IF m_server_socket \in FdNums /\ fdtab[m_server_socket] = "listen"
       THEN srvPc' = "blocked" /\ srvFd' = m_server_socket /\ UNCHANGED srvClient
       ELSE srvPc' = "check" /\ srvClient' = -1 /\ UNCHANGED srvFd
    /\ UNCHANGED <<srvFields, fdtab, ctlVars, acceptLoops, nConns,
                   pVars, hVars, logs>>

\* a client connects: accept returns its descriptor (lines 118, 127).  The
\* blocked call holds the listening socket itself, so this also happens after
\* stop() closed the descriptor number.
SrvAcceptConn(maxc) ==
    /\ srvPc = "blocked"
    /\ nConns < maxc
    /\ HasFree(fdtab)
    /\ srvClient' = LowestFree(fdtab)
    /\ fdtab' = [fdtab EXCEPT ![LowestFree(fdtab)] = "client"]
    /\ srvPc' = "spawn"
    /\ UNCHANGED <<srvFields, ctlVars, srvFd, acceptLoops, nConns, pVars, hVars, logs>>

\* an accept loop that returns when accept fails
SrvAcceptErrorExits ==
    /\ srvPc = "blocked"
    /\ fdtab[srvFd] = "listen"
    /\ srvClient' = -1
    /\ srvPc' = "exited"
    /\ acceptLoops' = acceptLoops - 1
    /\ UNCHANGED <<srvFields, fdtab, ctlVars, srvFd, nConns, pVars, hVars, logs>>

\* accept fails while the descriptor is open: it returns -1 (line 118), which
\* is logged, and the loop continues (lines 120-125)
SrvAcceptError ==
    /\ srvPc = "blocked"
    /\ fdtab[srvFd] = "listen"
    /\ srvClient' = -1
    /\ srvPc' = "check"
    /\ UNCHANGED <<srvFields, fdtab, ctlVars, srvFd, acceptLoops, nConns,
                   pVars, hVars, logs>>

\* the descriptor was closed under the blocked accept.  Whether that wakes the
\* call is up to the platform (on Linux it does not): when it does, accept fails
\* and the loop continues at line 124.
SrvAcceptWoken ==
    /\ srvPc = "blocked"
    /\ fdtab[srvFd] # "listen"
    /\ srvClient' = -1
    /\ srvPc' = "check"
    /\ UNCHANGED <<srvFields, fdtab, ctlVars, srvFd, acceptLoops, nConns,
                   pVars, hVars, logs>>

\* an accept loop that starts two threads on the socket it accepted
SrvSpawnTwice ==
    /\ srvPc = "spawn"
    /\ nConns' = nConns + 1
    /\ hPc' = [h \in Handlers |->
                 IF h \in {nConns + 1, nConns + 2} THEN "entry" ELSE hPc[h]]
    /\ client_socket' = [h \in Handlers |->
                           IF h \in {nConns + 1, nConns + 2} THEN srvClient
                           ELSE client_socket[h]]
    /\ srvPc' = "check"
    /\ UNCHANGED <<srvFields, fdtab, ctlVars, srvFd, srvClient, acceptLoops,
                   pVars, h_frame, has_frame, h_part, wire, logs>>

\* lines 130-131: a detached thread runs clientHandler(client_socket)
SrvSpawn ==
    /\ srvPc = "spawn"
    /\ nConns' = nConns + 1
    /\ hPc' = [hPc EXCEPT ![nConns + 1] = "entry"]
    /\ client_socket' = [client_socket EXCEPT ![nConns + 1] = srvClient]
    /\ srvPc' = "check"
    /\ UNCHANGED <<srvFields, fdtab, ctlVars, srvFd, srvClient, acceptLoops,
                   pVars, h_frame, has_frame, h_part, wire, logs>>

(***************************************************************************)
(* pushFrame, on a capture thread t.                                       *)
(***************************************************************************)
InFlight == Cardinality({t \in CaptureThreads : pPc[t] # "idle"})

\* the eviction loop with > for >=
RECURSIVE EvictOffByOne(_)
EvictOffByOne(q) == IF Len(q) > MAX_QUEUE_SIZE THEN EvictOffByOne(Tail(q)) ELSE q

\* lines 106-108: while (size() >= MAX_QUEUE_SIZE) pop()
RECURSIVE EvictOldest(_)
EvictOldest(q) == IF Len(q) >= MAX_QUEUE_SIZE THEN EvictOldest(Tail(q)) ELSE q

\* a push that rejects the newest frame once the queue was full
PushRejectNewest(q, f) == IF Len(q) >= MAX_QUEUE_SIZE - 1 THEN q ELSE Append(q, f)

\* line 110: push(frame)
QueuePush(q, f) == Append(q, f)

\* pushFrame testing only the pointer
PushDroppedIfNull(t) == pstData[t] = NULL

\* line 97: if (!m_running || !pstData) return
PushDropped(t) == ~m_running \/ pstData[t] = NULL

\* the callback thread calls pushFrame(p); at most limit ids are handed out
PushCall(t, p, limit) ==
    /\ pPc[t] = "idle"
    /\ Len(idLog) + InFlight < limit
    /\ pPc' = [pPc EXCEPT ![t] = "check"]
    /\ pstData' = [pstData EXCEPT ![t] = p]
    /\ UNCHANGED <<srvFields, fdtab, ctlVars, srvVars, pTmp, pFrame, hVars, logs>>

\* lines 97-99
PushCheck(t) ==
    /\ pPc[t] = "check"
    /\ pPc' = [pPc EXCEPT ![t] = IF PushDropped(t) THEN "idle" ELSE "load"]
    /\ UNCHANGED <<srvFields, fdtab, ctlVars, srvVars, pstData, pTmp, pFrame, hVars, logs>>

\* line 250, ++m_frame_counter on a plain uint32_t, outside any lock: the
\* counter is read ...
PushLoad(t) ==
    /\ pPc[t] = "load"
    /\ pTmp' = [pTmp EXCEPT ![t] = m_frame_counter]
    /\ pPc' = [pPc EXCEPT ![t] = "store"]
    /\ UNCHANGED <<srvFields, fdtab, ctlVars, srvVars, pstData, pFrame, hVars, logs>>

\* ... and the incremented value written back and taken as the frame's id; the
\* planes are copied (lines 248-285).  The counter is a uint32_t; the runs
\* here hand out far fewer than 2^32 ids, so it never wraps.
\* frame_id = m_frame_counter++ : the frame gets the value before the increment
PushStorePostIncrement(t, now) ==
    /\ pPc[t] = "store"
    /\ LET id == pTmp[t]
       IN  /\ m_frame_counter' = id + 1
           /\ pFrame' = [pFrame EXCEPT
                           ![t] = convertToStreamFrame(RawTable[pstData[t]], now, id)]
           /\ idLog' = Append(idLog, id)
    /\ pPc' = [pPc EXCEPT ![t] = "lock"]
    /\ UNCHANGED <<m_server_socket, m_running, m_connected_clients, m_frame_queue,
                   m_frame_mutex, fdtab, ctlVars, srvVars, pstData, pTmp, hVars,
                   pushLog, popLog, pushAfterPop>>

PushStore(t, now) ==
    /\ pPc[t] = "store"
    /\ LET id == pTmp[t] + 1
       IN  /\ m_frame_counter' = id
           /\ pFrame' = [pFrame EXCEPT
                           ![t] = convertToStreamFrame(RawTable[pstData[t]], now, id)]
           /\ idLog' = Append(idLog, id)
    /\ pPc' = [pPc EXCEPT ![t] = "lock"]
    /\ UNCHANGED <<m_server_socket, m_running, m_connected_clients, m_frame_queue,
                   m_frame_mutex, fdtab, ctlVars, srvVars, pstData, pTmp, hVars,
                   pushLog, popLog, pushAfterPop>>

\* line 103: lock_guard takes m_frame_mutex
\* a pushFrame that goes on to the buffer without taking the mutex
PushLockSkipped(t) ==
    /\ pPc[t] = "lock"
    /\ pPc' = [pPc EXCEPT ![t] = "evict"]
    /\ UNCHANGED <<m_server_socket, m_running, m_connected_clients, m_frame_counter,
                   m_frame_queue, m_frame_mutex, fdtab, ctlVars, srvVars, pstData,
                   pTmp, pFrame, hVars, logs>>

PushLock(t) ==
    /\ pPc[t] = "lock"
    /\ m_frame_mutex = Free
    /\ m_frame_mutex' = PushOwner(t)
    /\ pPc' = [pPc EXCEPT ![t] = "evict"]
    /\ UNCHANGED <<m_server_socket, m_running, m_connected_clients, m_frame_counter,
                   m_frame_queue, fdtab, ctlVars, srvVars, pstData, pTmp, pFrame,
                   hVars, logs>>

\* lines 106-108, under the lock
PushEvict(t) ==
    /\ pPc[t] = "evict"
    /\ m_frame_queue' = EvictOldest(m_frame_queue)
    /\ pPc' = [pPc EXCEPT ![t] = "append"]
    /\ UNCHANGED <<m_server_socket, m_running, m_connected_clients, m_frame_counter,
                   m_frame_mutex, fdtab, ctlVars, srvVars, pstData, pTmp, pFrame,
                   hVars, logs>>

\* a pushFrame that returns without releasing the mutex
PushAppendKeepsLock(t) ==
    /\ pPc[t] = "append"
    /\ m_frame_queue' = QueuePush(m_frame_queue, pFrame[t])
    /\ pushLog' = Append(pushLog, pFrame[t].frame_id)
    /\ pushAfterPop' = (pushAfterPop \/ popLog # <<>>)
    /\ pPc' = [pPc EXCEPT ![t] = "idle"]
    /\ UNCHANGED <<m_server_socket, m_running, m_connected_clients, m_frame_counter,
                   m_frame_mutex, fdtab, ctlVars, srvVars, pstData, pTmp, pFrame,
                   hVars, idLog, popLog>>

\* lines 110-111: push, then the lock_guard releases the mutex
PushAppend(t) ==
    /\ pPc[t] = "append"
    /\ m_frame_queue' = QueuePush(m_frame_queue, pFrame[t])
    /\ pushLog' = Append(pushLog, pFrame[t].frame_id)
    /\ pushAfterPop' = (pushAfterPop \/ popLog # <<>>)
    /\ m_frame_mutex' = Free
    /\ pPc' = [pPc EXCEPT ![t] = "idle"]
    /\ UNCHANGED <<m_server_socket, m_running, m_connected_clients, m_frame_counter,
                   fdtab, ctlVars, srvVars, pstData, pTmp, pFrame, hVars, idLog, popLog>>

(***************************************************************************)
(* clientHandler and sendFrameToClient, on the thread of connection h.     *)
(***************************************************************************)
\* a header sent without its last field
PartSizeShortHeader(f, part) ==
    CASE part = "hdr" -> 8 + 9 * 4
      [] part = "depth" -> f.depth_size
      [] part = "rgb" -> f.rgb_size
      [] part = "ir" -> f.ir_size

\* sizeof(FrameHeader): one uint64_t and ten uint32_t (lines 178-190)
HeaderSize == 8 + 10 * 4

PartSize(f, part) ==
    CASE part = "hdr" -> HeaderSize
      [] part = "depth" -> f.depth_size
      [] part = "rgb" -> f.rgb_size
      [] part = "ir" -> f.ir_size

\* lines 211, 219, 227: a plane is sent when its size is > 0 and it has data
PartPresent(f, part) ==
    CASE part = "depth" -> f.depth_size > 0 /\ f.depth_data # <<>>
      [] part = "rgb" -> f.rgb_size > 0 /\ f.rgb_data # <<>>
      [] part = "ir" -> f.ir_size > 0 /\ f.ir_data # <<>>

\* sendFrameToClient sending the IR plane before the RGB and depth planes
NextPartIrFirst(f, part) ==
    LET after == CASE part = "hdr" -> <<"ir", "rgb", "depth">>
                   [] part = "ir" -> <<"rgb", "depth">>
                   [] part = "rgb" -> <<"depth">>
                   [] part = "depth" -> <<>>
        present == SelectSeq(after, LAMBDA x : PartPresent(f, x))
    IN  IF present = <<>> THEN "end" ELSE Head(present)

\* the next send of sendFrameToClient after `part`, "end" for return true
NextPart(f, part) ==
    LET after == CASE part = "hdr" -> <<"depth", "rgb", "ir">>
                   [] part = "depth" -> <<"rgb", "ir">>
                   [] part = "rgb" -> <<"ir">>
                   [] part = "ir" -> <<>>
        present == SelectSeq(after, LAMBDA x : PartPresent(f, x))
    IN  IF present = <<>> THEN "end" ELSE Head(present)

\* back() for front()
QueueBack(q) == q[Len(q)]

\* a handler that reads the front frame and leaves it in the queue
QueueNotPopped(q) == q

\* lines 147-148: front() and pop()
QueueFront(q) == Head(q)

QueuePopped(q) == Tail(q)

\* line 136: m_connected_clients++
HEntry(h) ==
    /\ hPc[h] = "entry"
    /\ m_connected_clients' = m_connected_clients + 1
    /\ hPc' = [hPc EXCEPT ![h] = "loop"]
    /\ UNCHANGED <<m_server_socket, m_running, m_frame_counter, m_frame_queue,
                   m_frame_mutex, fdtab, ctlVars, srvVars, pVars, client_socket,
                   h_frame, has_frame, h_part, wire, logs>>

\* lines 139-141: while (m_running) { StreamFrame frame; bool has_frame = false;
HLoop(h) ==
    /\ hPc[h] = "loop"
    /\ hPc' = [hPc EXCEPT ![h] = IF m_running THEN "lock" ELSE "closing"]
    /\ h_frame' = [h_frame EXCEPT ![h] = NoFrame]
    /\ has_frame' = [has_frame EXCEPT ![h] = FALSE]
    /\ UNCHANGED <<srvFields, fdtab, ctlVars, srvVars, pVars, client_socket,
                   h_part, wire, logs>>

\* line 145: lock_guard takes m_frame_mutex
HLock(h) ==
    /\ hPc[h] = "lock"
    /\ m_frame_mutex = Free
    /\ m_frame_mutex' = HandlerOwner(h)
    /\ hPc' = [hPc EXCEPT ![h] = "pop"]
    /\ UNCHANGED <<m_server_socket, m_running, m_connected_clients, m_frame_counter,
                   m_frame_queue, fdtab, ctlVars, srvVars, pVars, client_socket,
                   h_frame, has_frame, h_part, wire, logs>>

\* a handler whose lock_guard lives on into the send of the frame it popped
HPopKeepsLock(h) ==
    /\ hPc[h] = "pop"
    /\ IF m_frame_queue # <<>>
       THEN /\ h_frame' = [h_frame EXCEPT ![h] = QueueFront(m_frame_queue)]
            /\ m_frame_queue' = QueuePopped(m_frame_queue)
            /\ has_frame' = [has_frame EXCEPT ![h] = TRUE]
            /\ popLog' = Append(popLog, QueueFront(m_frame_queue).frame_id)
            /\ hPc' = [hPc EXCEPT ![h] = "send"]
            /\ h_part' = [h_part EXCEPT ![h] = "hdr"]
            /\ UNCHANGED m_frame_mutex
       ELSE /\ hPc' = [hPc EXCEPT ![h] = "sleep"]
            /\ m_frame_mutex' = Free
            /\ UNCHANGED <<h_frame, m_frame_queue, has_frame, popLog, h_part>>
    /\ UNCHANGED <<m_server_socket, m_running, m_connected_clients, m_frame_counter,
                   fdtab, ctlVars, srvVars, pVars, client_socket, wire, idLog, pushLog,
                   pushAfterPop>>

\* lines 146-151: take the front frame if there is one, release the mutex
HPop(h) ==
    /\ hPc[h] = "pop"
    /\ IF m_frame_queue # <<>>
       THEN /\ h_frame' = [h_frame EXCEPT ![h] = QueueFront(m_frame_queue)]
            /\ m_frame_queue' = QueuePopped(m_frame_queue)
            /\ has_frame' = [has_frame EXCEPT ![h] = TRUE]
            /\ popLog' = Append(popLog, QueueFront(m_frame_queue).frame_id)
            /\ hPc' = [hPc EXCEPT ![h] = "send"]
            /\ h_part' = [h_part EXCEPT ![h] = "hdr"]
       ELSE /\ hPc' = [hPc EXCEPT ![h] = "sleep"]
            /\ UNCHANGED <<h_frame, m_frame_queue, has_frame, popLog, h_part>>
    /\ m_frame_mutex' = Free
    /\ UNCHANGED <<m_server_socket, m_running, m_connected_clients, m_frame_counter,
                   fdtab, ctlVars, srvVars, pVars, client_socket, wire, idLog, pushLog,
                   pushAfterPop>>

\* the k low bytes of v, lowest first: how the (little-endian) platform lays
\* out the integer fields of FrameHeader
RECURSIVE LEBytes(_, _)
LEBytes(v, k) == IF k = 0 THEN <<>> ELSE <<v % 256>> \o LEBytes(v \div 256, k - 1)

\* a header whose depth_width and depth_height fields are filled in crosswise
HeaderDepthSwapped(f) ==
    LEBytes(f.timestamp, 8) \o LEBytes(f.frame_id, 4)
        \o LEBytes(f.depth_height, 4) \o LEBytes(f.depth_width, 4) \o LEBytes(f.depth_size, 4)
        \o LEBytes(f.rgb_width, 4) \o LEBytes(f.rgb_height, 4) \o LEBytes(f.rgb_size, 4)
        \o LEBytes(f.ir_width, 4) \o LEBytes(f.ir_height, 4) \o LEBytes(f.ir_size, 4)

\* lines 178-202: the bytes of `header` after its fields are filled in
HeaderBytes(f) ==
    LEBytes(f.timestamp, 8) \o LEBytes(f.frame_id, 4)
        \o LEBytes(f.depth_width, 4) \o LEBytes(f.depth_height, 4) \o LEBytes(f.depth_size, 4)
        \o LEBytes(f.rgb_width, 4) \o LEBytes(f.rgb_height, 4) \o LEBytes(f.rgb_size, 4)
        \o LEBytes(f.ir_width, 4) \o LEBytes(f.ir_height, 4) \o LEBytes(f.ir_size, 4)

\* the buffer a send() is given: &header, or a plane's data
PartBytes(f, part) ==
    CASE part = "hdr" -> HeaderBytes(f)
      [] part = "depth" -> f.depth_data
      [] part = "rgb" -> f.rgb_data
      [] part = "ir" -> f.ir_data

\* what send() of n bytes can return: n, fewer (a short write), or -1
SendResults(o, n) ==
    CASE o = "ok" -> {n}
      [] o = "short" -> {k \in {1, n - 1} : k >= 1 /\ k < n}
      [] o = "fail" -> {-1}

\* a test that takes any bytes written for success
SendAnyBytes(sent, n) == sent > 0

\* lines 206, 213, 221, 229: if (sent != size) return false
SendComplete(sent, n) == sent = n

\* one send() of sendFrameToClient (lines 205, 212, 220, 228) and the test of
\* its result: "ok" wrote the whole part, "short" fewer bytes, "fail" none (-1)
HSend(h, o) ==
    /\ hPc[h] = "send"
    /\ LET f == h_frame[h]
           part == h_part[h]
           n == PartSize(f, part)
       IN  \E sent \in SendResults(o, n) :
             /\ wire' = IF sent > 0
                        THEN [wire EXCEPT ![h] =
                                Append(@, [frame_id |-> f.frame_id, part |-> part,
                                           n |-> sent,
                                           done |-> sent = n /\ NextPart(f, part) = "end",
                                           bytes |-> SubSeq(PartBytes(f, part), 1, sent)])]
                        ELSE wire
             /\ IF SendComplete(sent, n)
                THEN IF NextPart(f, part) = "end"
                     THEN /\ hPc' = [hPc EXCEPT ![h] = "loop"]
                          /\ h_part' = [h_part EXCEPT ![h] = "none"]
                     ELSE /\ h_part' = [h_part EXCEPT ![h] = NextPart(f, part)]
                          /\ UNCHANGED hPc
                ELSE /\ hPc' = [hPc EXCEPT ![h] = "closing"]
                     /\ h_part' = [h_part EXCEPT ![h] = "none"]
    /\ UNCHANGED <<srvFields, fdtab, ctlVars, srvVars, pVars, client_socket,
                   h_frame, has_frame, logs>>

\* a handler that gives up when it finds the buffer empty
HSleepExits(h) ==
    /\ hPc[h] = "sleep"
    /\ hPc' = [hPc EXCEPT ![h] = "closing"]
    /\ UNCHANGED <<srvFields, fdtab, ctlVars, srvVars, pVars, client_socket,
                   h_frame, has_frame, h_part, wire, logs>>

\* line 159: sleep_for(10 ms), then back to the loop test
HSleep(h) ==
    /\ hPc[h] = "sleep"
    /\ hPc' = [hPc EXCEPT ![h] = "loop"]
    /\ UNCHANGED <<srvFields, fdtab, ctlVars, srvVars, pVars, client_socket,
                   h_frame, has_frame, h_part, wire, logs>>

\* a handler that closes the server's descriptor instead of its own
HCloseServerSocket(h) ==
    /\ hPc[h] = "closing"
    /\ fdtab' = IF m_server_socket \in FdNums
                THEN [fdtab EXCEPT ![m_server_socket] = "free"]
                ELSE fdtab
    /\ hPc' = [hPc EXCEPT ![h] = "dec"]
    /\ UNCHANGED <<srvFields, ctlVars, srvVars, pVars, client_socket,
                   h_frame, has_frame, h_part, wire, logs>>

\* lines 169-170: shutdown(client_socket, SHUT_RDWR); close(client_socket)
HClose(h) ==
    /\ hPc[h] = "closing"
    /\ fdtab' = [fdtab EXCEPT ![client_socket[h]] = "free"]
    /\ hPc' = [hPc EXCEPT ![h] = "dec"]
    /\ UNCHANGED <<srvFields, ctlVars, srvVars, pVars, client_socket,
                   h_frame, has_frame, h_part, wire, logs>>

\* a handler that ends without m_connected_clients--
HDecSkipped(h) ==
    /\ hPc[h] = "dec"
    /\ hPc' = [hPc EXCEPT ![h] = "done"]
    /\ UNCHANGED <<srvFields, fdtab, ctlVars, srvVars, pVars, client_socket,
                   h_frame, has_frame, h_part, wire, logs>>

\* line 171: m_connected_clients--, and the thread ends
HDec(h) ==
    /\ hPc[h] = "dec"
    /\ m_connected_clients' = m_connected_clients - 1
    /\ hPc' = [hPc EXCEPT ![h] = "done"]
    /\ UNCHANGED <<m_server_socket, m_running, m_frame_counter, m_frame_queue,
                   m_frame_mutex, fdtab, ctlVars, srvVars, pVars, client_socket,
                   h_frame, has_frame, h_part, wire, logs>>

(***************************************************************************)
(* Specifications.                                                         *)
(***************************************************************************)
StartFailures == {"socket", "setsockopt", "bind", "listen"}

SendOutcomes == {"ok", "short", "fail"}

\* sends that write the whole part or nothing
SendWholeOrNone == {"ok", "fail"}

\* the reading of high_resolution_clock::now() (line 248), in microseconds
Clock == {1000}

Starting ==
    \/ StartCall
    \/ StartAlready
    \/ StartOpen
    \/ StartRun

Stopping ==
    \/ StopCall
    \/ StopEntry
    \/ StopClose
    \/ StopJoin

Accepting(maxc) ==
    \/ SrvCheck
    \/ SrvAcceptCall
    \/ SrvAcceptConn(maxc)
    \/ SrvAcceptError
    \/ SrvSpawn

Pushing(threads, ptrs, limit) ==
    \E t \in threads :
        \/ \E p \in ptrs : PushCall(t, p, limit)
        \/ PushCheck(t)
        \/ PushLoad(t)
        \/ \E now \in Clock : PushStore(t, now)
        \/ PushLock(t)
        \/ PushEvict(t)
        \/ PushAppend(t)

Handling(outs) ==
    \E h \in Handlers :
        \/ HEntry(h)
        \/ HLoop(h)
        \/ HLock(h)
        \/ HPop(h)
        \/ \E o \in outs : HSend(h, o)
        \/ HSleep(h)
        \/ HClose(h)
        \/ HDec(h)

\* The whole lifecycle: any sequence of start() and stop() calls, with failing
\* system calls and failing sends, one capture thread handing in LifeFrames
\* frames, LifeConns connections.
Next ==
    \/ Starting
    \/ \E o \in StartFailures : StartFail(o)
    \/ Stopping
    \/ Accepting(LifeConns)
    \/ SrvAcceptWoken
    \/ Pushing({1}, {NULL, 1}, LifeFrames)
    \/ Handling(SendWholeOrNone)

Spec == Init /\ [][Next]_vars

\* What the scheduler guarantees: a thread that can take its next step takes
\* it; a thread waiting for m_frame_mutex gets it (its holders release it after
\* a bounded section); a send() that was entered returns.  Nothing makes the
\* environment call start(), stop() or pushFrame(), makes a client connect, or
\* makes a blocked accept() return.
Fairness ==
    /\ WF_vars(StartAlready \/ StartOpen \/ StartRun)
    /\ WF_vars(StopEntry)
    /\ WF_vars(StopClose)
    /\ WF_vars(StopJoin)
    /\ WF_vars(SrvCheck)
    /\ WF_vars(SrvAcceptCall)
    /\ WF_vars(SrvSpawn)
    /\ \A t \in CaptureThreads :
         /\ WF_vars(PushCheck(t) \/ PushLoad(t) \/ PushEvict(t) \/ PushAppend(t))
         /\ WF_vars(\E now \in Clock : PushStore(t, now))
         /\ SF_vars(PushLock(t))
    /\ \A h \in Handlers :
         /\ WF_vars(HEntry(h) \/ HLoop(h) \/ HPop(h) \/ HSleep(h) \/ HClose(h) \/ HDec(h))
         /\ WF_vars(\E o \in SendWholeOrNone : HSend(h, o))
         /\ SF_vars(HLock(h))

FairSpec == Spec /\ Fairness

\* The environment of the two specifications below: start() is called on the
\* stopped server and succeeds, stop() is not called, accept() does not fail.
Serving(maxc) ==
    \/ ~m_running /\ StartCall
    \/ StartOpen
    \/ StartRun
    \/ SrvCheck
    \/ SrvAcceptCall
    \/ SrvAcceptConn(maxc)
    \/ SrvSpawn

\* Failing accepts: the server is started and stays running, accept() fails any
\* number of times, two clients connect, one frame is handed in.
NextAccept ==
    \/ Serving(Cardinality(Handlers))
    \/ SrvAcceptError
    \/ Pushing({1}, {1}, AcceptFrames)
    \/ Handling(SendWholeOrNone)

SpecAccept == Init /\ [][NextAccept]_vars /\ Fairness

\* stop() is in progress
StopPcs == {"stop_entry", "stop_close", "stop_join"}

\* Restarts: any sequence of start() and stop() calls in which the system calls
\* of start() succeed and accept() does not fail, one client, one capture thread
\* handing in RestartFrames frames.  The capture thread is quiet during stop():
\* stop() is called between two pushFrame calls and no pushFrame call begins
\* before it returns, so the frames in the buffer during a stop() are the
\* frames that were there when it was called.
NextRestart ==
    \/ Starting
    \/ InFlight = 0 /\ StopCall
    \/ StopEntry
    \/ StopClose
    \/ StopJoin
    \/ SrvCheck
    \/ SrvAcceptCall
    \/ SrvAcceptConn(1)
    \/ SrvSpawn
    \/ ctlPc \notin StopPcs /\ Pushing({1}, {1}, RestartFrames)
    \/ Handling(SendWholeOrNone)

SpecRestart == Init /\ [][NextRestart]_vars

FairRestart == SpecRestart /\ Fairness

\* Fan-out: two clients connect, one capture thread hands in FanFrames frames,
\* sends may fail.
NextFan ==
    \/ Serving(Cardinality(Handlers))
    \/ Pushing({1}, {1}, FanFrames)
    \/ Handling(SendOutcomes)

SpecFan == Init /\ [][NextFan]_vars

\* Stalled clients: two clients, and the threads run (a thread that can take its next step takes
\* it, a capture thread waiting for m_frame_mutex gets it), but a send() that
\* was entered need never return.
StalledFairness ==
    /\ \A t \in CaptureThreads :
         /\ WF_vars(PushCheck(t) \/ PushLoad(t) \/ PushEvict(t) \/ PushAppend(t))
         /\ WF_vars(\E now \in Clock : PushStore(t, now))
         /\ SF_vars(PushLock(t))
    /\ \A h \in Handlers :
         /\ WF_vars(HEntry(h) \/ HLoop(h) \/ HPop(h) \/ HSleep(h) \/ HClose(h) \/ HDec(h))
         /\ SF_vars(HLock(h))

\* two clients, one capture thread handing in StalledFrames frames
NextStalled ==
    \/ Serving(Cardinality(Handlers))
    \/ Pushing({1}, {1}, StalledFrames)
    \/ Handling(SendWholeOrNone)

SpecStalled == Init /\ [][NextStalled]_vars /\ StalledFairness

\* Draining: the server stays running, two clients, one capture thread handing
\* in DrainFrames frames.  Every step of a handler is weakly fair, the taking
\* of the lock included; nothing is assumed of the capture thread or of the
\* accept loop.
DrainFairness ==
    \A h \in Handlers :
        /\ WF_vars(HEntry(h) \/ HLoop(h) \/ HPop(h) \/ HSleep(h) \/ HClose(h) \/ HDec(h))
        /\ WF_vars(\E o \in SendWholeOrNone : HSend(h, o))
        /\ WF_vars(HLock(h))

NextDrain ==
    \/ Serving(Cardinality(Handlers))
    \/ Pushing({1}, {1}, DrainFrames)
    \/ Handling(SendWholeOrNone)

SpecDrain == Init /\ [][NextDrain]_vars /\ DrainFairness

\* Racing captures: two capture threads (two cameras) hand in RaceFrames frames
\* against one client.
NextRace ==
    \/ Serving(1)
    \/ Pushing(CaptureThreads, {1}, RaceFrames)
    \/ Handling(SendWholeOrNone)

SpecRace == Init /\ [][NextRace]_vars

\* The buffer: one capture thread hands in BufFrames frames (more than the
\* queue holds) against one client.
NextBuf ==
    \/ Serving(1)
    \/ Pushing({1}, {NULL, 1}, BufFrames)
    \/ Handling(SendWholeOrNone)

SpecBuf == Init /\ [][NextBuf]_vars

\* The wire format: one capture thread hands in WireFrames frames, each any of
\* the raw records, against one client; sends may fail.
NextWire ==
    \/ Serving(1)
    \/ Pushing({1}, DOMAIN RawTable, WireFrames)
    \/ Handling(SendOutcomes)

SpecWire == Init /\ [][NextWire]_vars

(***************************************************************************)
(* Properties.                                                             *)
(***************************************************************************)
LastN(seq, n) == SubSeq(seq, Len(seq) - n + 1, Len(seq))

Min(a, b) == IF a < b THEN a ELSE b

UpTo(n) == [k \in 1 .. n |-> k]

\* no capture thread is between the eviction loop and the push of pushFrame
NoPushHalfDone == \A t \in CaptureThreads : pPc[t] # "append"

\* C1: in every reachable state the frame buffer holds at most MAX_QUEUE_SIZE
\* (10) frames, whatever the interleaving of pushFrame and the handlers' pops.
C1_BufferBound == Len(m_frame_queue) <= MAX_QUEUE_SIZE

\* the buffer is full after more than 10 pushes, with pops in between
C1_Witness ==
    /\ Len(m_frame_queue) = MAX_QUEUE_SIZE
    /\ Len(pushLog) > MAX_QUEUE_SIZE
    /\ popLog # <<>>

\* C2: drop-oldest retention.  Between pushFrame calls the buffer holds the
\* most recently appended frames in the order appended, and with no pop so far
\* exactly the last min(n, 10) of the n appended; the eviction loop removes
\* only the head of a full buffer and nothing from a buffer that is not full,
\* and the push always puts the new frame at the tail.
C2_StateOk ==
    NoPushHalfDone =>
        /\ Ids(m_frame_queue) = LastN(pushLog, Len(m_frame_queue))
        /\ popLog = <<>> => Len(m_frame_queue) = Min(Len(pushLog), MAX_QUEUE_SIZE)

C2_StepOk ==
    \A t \in CaptureThreads :
        /\ (pPc[t] = "evict" /\ pPc'[t] = "append") =>
              m_frame_queue' = IF Len(m_frame_queue) = MAX_QUEUE_SIZE
                               THEN Tail(m_frame_queue)
                               ELSE m_frame_queue
        /\ (pPc[t] = "append" /\ pPc'[t] = "idle") =>
              m_frame_queue' = Append(m_frame_queue, pFrame[t])

C2_DropOldest == [](C2_StateOk) /\ [][C2_StepOk]_vars

\* frame 11 was pushed into the buffer holding 1..10, with no pop: it holds 2..11
C2_Witness ==
    /\ popLog = <<>>
    /\ NoPushHalfDone
    /\ pushLog = UpTo(MAX_QUEUE_SIZE + 1)
    /\ Ids(m_frame_queue) = [k \in 1 .. MAX_QUEUE_SIZE |-> k + 1]

\* C3: FIFO.  While no more than 10 frames were handed in (so none was
\* evicted) the frames have ids 1..N and the ids popped so far followed by the
\* ids still queued are 1..N in order: successive pops return 1, 2, ..., N.  A
\* pop attempt on an empty buffer returns no frame and leaves the buffer as it
\* was.
C3_StateOk ==
    Len(idLog) <= MAX_QUEUE_SIZE =>
        /\ pushLog = UpTo(Len(pushLog))
        /\ popLog \o Ids(m_frame_queue) = pushLog

C3_StepOk ==
    \A h \in Handlers :
        (hPc[h] = "pop" /\ hPc'[h] # "pop" /\ m_frame_queue = <<>>) =>
            /\ hPc'[h] = "sleep"
            /\ has_frame'[h] = FALSE
            /\ h_frame'[h] = NoFrame
            /\ m_frame_queue' = <<>>
            /\ popLog' = popLog

Received(h) ==
    LET whole == SelectSeq(wire[h], LAMBDA e : e.done)
    IN  [k \in 1 .. Len(whole) |-> whole[k].frame_id]

\* the ids of the frames handler h took from the buffer and wrote bytes of, or
\* holds now
Held(h) ==
    {wire[h][k].frame_id : k \in 1 .. Len(wire[h])}
        \cup (IF has_frame[h] THEN {h_frame[h].frame_id} ELSE {})

StrictlyIncreasing(seq) ==
    \A i, j \in 1 .. Len(seq) : i < j => seq[i] < seq[j]

\* no send has failed: every handler that was started is still in its loop
\* (no stop() is called in SpecFan)
NoSendFailed == \A h \in Handlers : hPc[h] \notin {"closing", "dec", "done"}

Sending == Cardinality({h \in Handlers : hPc[h] = "send"})

\* C4: fan-out without duplication.  No frame is taken from the buffer by two
\* handlers; the ids a client receives are strictly increasing (so none comes
\* twice); and while no send has failed and nothing was evicted, every frame
\* appended is still queued, being sent by one handler, or received by one
\* client: once the buffer is drained the clients together received exactly
\* the frames ingested (3 of 3).
C4_FanOut ==
    /\ \A h1, h2 \in Handlers : h1 # h2 => Held(h1) \cap Held(h2) = {}
    /\ \A h \in Handlers : StrictlyIncreasing(Received(h))
    /\ (NoSendFailed /\ Len(idLog) <= MAX_QUEUE_SIZE) =>
          Len(Received(1)) + Len(Received(2)) + Sending + Len(m_frame_queue)
              = Len(pushLog)

\* two clients, frames 1..3 ingested and all sent: each client received some,
\* together three
C4_Witness ==
    /\ pushLog = <<1, 2, 3>>
    /\ m_frame_queue = <<>>
    /\ NoSendFailed
    /\ Sending = 0
    /\ Received(1) # <<>>
    /\ Received(2) # <<>>
    /\ Len(Received(1)) + Len(Received(2)) = 3

\* C5: the frame ids one server instance assigns are pairwise distinct and
\* strictly increasing in the order assigned, also when pushFrame runs on two
\* capture threads at once.
C5_IdsDistinctIncreasing == StrictlyIncreasing(idLog)

\* C6: start() is idempotent.  A start() entered while the server is running
\* returns true at once and leaves the descriptors, m_server_socket and the
\* accept loop as they are; and whenever the server is running exactly one
\* listening socket is open and exactly one accept loop exists.
C6_StateOk == m_running => Cardinality(Listeners) = 1 /\ acceptLoops = 1

C6_StepOk ==
    (ctlPc = "start_entry" /\ ctlPc' # "start_entry" /\ m_running) =>
        /\ ctlPc' = "idle"
        /\ lastRet' = "start_already"
        /\ UNCHANGED <<m_running, m_server_socket, fdtab, srvVars>>

C6_StartIdempotent == [](C6_StateOk) /\ [][C6_StepOk]_vars

\* a second start() has returned true on the running server: one listener, one
\* accept loop
C6_Witness ==
    /\ lastRet = "start_already"
    /\ m_running
    /\ Cardinality(Listeners) = 1
    /\ acceptLoops = 1

\* C7: stop() on a server that is not running is a no-op: it returns at once,
\* joins nothing, and the running flag, the listening descriptor, the buffer,
\* the frame counter and the client count are unchanged.
C7_StepOk ==
    (ctlPc = "stop_entry" /\ ctlPc' # "stop_entry" /\ ~m_running) =>
        /\ ctlPc' = "idle"
        /\ lastRet' = "stop_noop"
        /\ UNCHANGED <<m_running, m_server_socket, m_frame_queue, m_frame_counter,
                       m_connected_clients, fdtab, srvVars>>

C7_StopNoop == [][C7_StepOk]_vars

\* stop() has returned as a no-op on a server that was started, fed a frame
\* and stopped before
C7_Witness ==
    /\ lastRet = "stop_noop"
    /\ ~m_running
    /\ m_frame_queue # <<>>
    /\ m_frame_counter > 0

\* C8: pushFrame with a null raw frame, or on a server that is not running,
\* returns at once: the buffer, the client count, the frame counter and the
\* frame lock are unchanged.
C8_StepOk ==
    \A t \in CaptureThreads :
        (pPc[t] = "check" /\ pPc'[t] # "check" /\ (pstData[t] = NULL \/ ~m_running)) =>
            /\ pPc'[t] = "idle"
            /\ UNCHANGED <<m_frame_queue, m_connected_clients, m_frame_counter,
                           m_frame_mutex, logs>>

C8_PushNoop == [][C8_StepOk]_vars

\* a null frame was handed to the running server with a client connected and a
\* frame queued, and the call has returned
C8_Witness ==
    /\ m_running
    /\ m_connected_clients > 0
    /\ m_frame_queue # <<>>
    /\ pPc[1] = "idle"
    /\ pstData[1] = NULL

\* the handler of connection h is in its loop (ACTIVE): it has not started to
\* shut its socket down
HActive(h) == hPc[h] \in {"entry", "loop", "lock", "pop", "send", "sleep"}

\* C9: after stop() on a running server the running flag is false and the
\* listening socket is closed, stop() returns only after the accept loop has
\* exited, and the accept loop does exit, wherever it was when the socket was
\* closed.
C9_StopEndsAcceptLoop ==
    /\ [](ctlPc \in {"stop_close", "stop_join"} => ~m_running)
    /\ [](ctlPc = "stop_join" => Listeners = {} /\ m_server_socket = -1)
    /\ [](lastRet = "stop_done" => srvPc = "none" /\ acceptLoops = 0)
    /\ (ctlPc = "stop_close") ~> (srvPc \in {"exited", "none"})

\* C10: a handler that is ACTIVE when stop() sets the running flag to false
\* reaches CLOSED (its sends returning), also when start() is called again
\* after stop() has returned.
C10_HandlersClose ==
    \A h \in Handlers : (ctlPc = "stop_close" /\ HActive(h)) ~> (hPc[h] = "done")

\* m_server_socket holds the number of a descriptor that start() opened and
\* closed again on a failure path (lines 47, 59, 66)
StaleSocket ==
    /\ m_server_socket \in FdNums
    /\ fdtab[m_server_socket] # "listen"

\* C11: a start() in which socket(), setsockopt(), bind() or listen() fails
\* returns false with the running flag still false, no accept loop started
\* and no descriptor left open; a start() called after that finds nothing in
\* its way (it can open its socket and go on to run).
C11_StateOk ==
    /\ lastRet = "start_failed" =>
          /\ ctlPc = "idle"
          /\ ~m_running
          /\ srvPc = "none"
          /\ acceptLoops = 0
          /\ Listeners = {}
          /\ ENABLED StartCall
    /\ (ctlPc = "start_entry" /\ ~m_running) => ENABLED StartOpen
    /\ ctlPc = "start_run" => ENABLED StartRun

C11_StepOk ==
    (ctlPc = "start_entry" /\ ctlPc' = "idle" /\ ~m_running) =>
        /\ lastRet' = "start_failed"
        /\ UNCHANGED <<m_running, fdtab, srvVars, hVars>>
        /\ m_server_socket' = -1 \/ fdtab'[m_server_socket'] = "free"

C11_StartFailure == [](C11_StateOk) /\ [][C11_StepOk]_vars

\* start() has been called again after a start() that failed in bind() or
\* listen(), and it can open its listening socket
C11_Witness ==
    /\ ctlPc = "start_entry"
    /\ ~m_running
    /\ StaleSocket
    /\ ENABLED StartOpen

\* the handler of connection h has left its loop
HLeft(h) == hPc[h] \in {"closing", "dec", "done"}

\* this step is a step of handler h inside sendFrameToClient
HSendStep(h) ==
    /\ hPc[h] = "send"
    /\ <<hPc[h], h_part[h], wire[h]>>' # <<hPc[h], h_part[h], wire[h]>>

\* ... in which the whole part was written
WholePartWritten(h) ==
    /\ Len(wire'[h]) = Len(wire[h]) + 1
    /\ wire'[h][Len(wire'[h])].n = PartSize(h_frame[h], h_part[h])

IdSet(seq) == {seq[k] : k \in 1 .. Len(seq)}

\* C12: when a send() of the header or of a plane writes fewer bytes than
\* asked, or fails, the handler leaves its loop at once: it writes nothing more
\* on that socket, never goes back to sending, does not put the frame back
\* into the buffer, and goes on to shut down and close the socket.
C12_StateOk ==
    /\ IdSet(Ids(m_frame_queue)) \cap IdSet(popLog) = {}
    /\ \A h \in Handlers :
         (HLeft(h) /\ has_frame[h]) =>
             h_frame[h].frame_id \notin IdSet(Ids(m_frame_queue))

C12_StepOk ==
    \A h \in Handlers :
        /\ (HSendStep(h) /\ ~WholePartWritten(h)) =>
              /\ hPc'[h] = "closing"
              /\ m_frame_queue' = m_frame_queue
        /\ HLeft(h) =>
              /\ HLeft(h)'
              /\ wire'[h] = wire[h]
        /\ (hPc[h] = "closing" /\ hPc'[h] # "closing") =>
              /\ hPc'[h] = "dec"
              /\ fdtab[client_socket[h]] = "client"
              /\ fdtab'[client_socket[h]] = "free"

C12_SendFailureCloses == [](C12_StateOk) /\ [][C12_StepOk]_vars

\* a handler wrote the header and then only part of the depth plane, and has
\* closed its socket
C12_Witness ==
    \E h \in Handlers :
        /\ hPc[h] = "done"
        /\ Len(wire[h]) = 2
        /\ wire[h][2].part = "depth"
        /\ wire[h][2].n < h_frame[h].depth_size
        /\ fdtab[client_socket[h]] = "free"

\* the locals and the socket output of handler h
HState(h) == <<hPc[h], client_socket[h], h_frame[h], has_frame[h], h_part[h], wire[h]>>

\* the listening side of the server: flag, listening descriptor, accept loop
ServerSide == <<m_running, m_server_socket, Listeners, srvVars>>

\* C13: a send failure on one connection touches only that connection.  The
\* failing send and the handler's shutdown, close and exit leave the running
\* flag, the listening socket, the accept loop and every other handler as they
\* are; the server goes on running with its listener open, and a connection
\* that arrives afterwards is accepted and gets its handler.
C13_StateOk ==
    (\E h \in Handlers : HLeft(h)) =>
        /\ m_running
        /\ Cardinality(Listeners) = 1
        /\ srvPc \in {"check", "accept", "blocked", "spawn"}
        /\ (srvPc = "blocked" /\ nConns < Cardinality(Handlers)) =>
              ENABLED SrvAcceptConn(Cardinality(Handlers))
        /\ srvPc = "spawn" => ENABLED SrvSpawn

C13_StepOk ==
    \A h \in Handlers :
        (\/ HSendStep(h) /\ ~WholePartWritten(h)
         \/ hPc[h] \in {"closing", "dec"} /\ hPc'[h] # hPc[h]) =>
            /\ ServerSide' = ServerSide
            /\ \A g \in Handlers \ {h} :
                 /\ HState(g)' = HState(g)
                 /\ (hPc[g] \notin {"unborn", "dec", "done"}) =>
                       fdtab'[client_socket[g]] = fdtab[client_socket[g]]

C13_FailureIsLocal == [](C13_StateOk) /\ [][C13_StepOk]_vars

\* the first connection failed in a send and was closed; the second connection
\* arrived after that (it was given the descriptor number the first one freed)
\* and is being served
C13_Witness ==
    /\ hPc[1] = "done"
    /\ wire[1] # <<>>
    /\ ~wire[1][Len(wire[1])].done
    /\ hPc[2] = "send"
    /\ client_socket[2] = client_socket[1]
    /\ m_running

RECURSIVE SumN(_)
SumN(recs) == IF recs = <<>> THEN 0 ELSE Head(recs).n + SumN(Tail(recs))

\* the records of the sends that wrote bytes of frame id, in the order written
MsgRecords(w, id) == SelectSeq(w, LAMBDA e : e.frame_id = id)

\* this step is the return true of sendFrameToClient in handler h
HSendDone(h) == HSendStep(h) /\ hPc'[h] = "loop"

Planes == {"depth", "rgb", "ir"}

\* C14: a fully successful transmission of a frame writes exactly
\* 48 + depth_size + rgb_size + ir_size bytes: first the 48 bytes of the
\* header, then one write per plane of non-zero size, of that size; a plane
\* of size 0 gets no write.
C14_StepOk ==
    \A h \in Handlers :
        HSendDone(h) =>
            LET f == h_frame[h]
                m == MsgRecords(wire'[h], f.frame_id)
            IN  /\ SumN(m) = 48 + f.depth_size + f.rgb_size + f.ir_size
                /\ m[1].part = "hdr"
                /\ m[1].n = 48
                /\ \A p \in Planes :
                     IF PartSize(f, p) = 0
                     THEN \A k \in 1 .. Len(m) : m[k].part # p
                     ELSE \E k \in 1 .. Len(m) : m[k].part = p /\ m[k].n = PartSize(f, p)

C14_MessageLength == [][C14_StepOk]_vars

\* a frame with depth_size = 100 and no RGB or IR plane was sent whole: 148
\* bytes, its header showing rgb_size = 0 (bytes 33..36) and ir_size = 0
\* (bytes 45..48)
C14_Witness ==
    \E h \in Handlers :
        /\ Len(wire[h]) = 2
        /\ wire[h][2].done
        /\ SumN(wire[h]) = 148
        /\ wire[h][2].part = "depth"
        /\ wire[h][2].n = 100
        /\ SubSeq(wire[h][1].bytes, 33, 36) = <<0, 0, 0, 0>>
        /\ SubSeq(wire[h][1].bytes, 45, 48) = <<0, 0, 0, 0>>

RECURSIVE Flat(_)
Flat(recs) == IF recs = <<>> THEN <<>> ELSE Head(recs).bytes \o Flat(Tail(recs))

\* the documented client side: an unsigned integer read from little-endian bytes
RECURSIVE LEValue(_)
LEValue(b) == IF b = <<>> THEN 0 ELSE Head(b) + 256 * LEValue(Tail(b))

Field(b, from, to) == LEValue(SubSeq(b, from, to))

\* the message length a 48-byte header announces
Announced(b) == 48 + Field(b, 21, 24) + Field(b, 33, 36) + Field(b, 45, 48)

\* the documented parse of one whole message: the 48-byte header, then the
\* planes whose declared size is non-zero, depth, RGB, IR
ParseMessage(b) ==
    LET ds == Field(b, 21, 24)
        cs == Field(b, 33, 36)
        is == Field(b, 45, 48)
    IN  [timestamp |-> Field(b, 1, 8), frame_id |-> Field(b, 9, 12),
         depth_width |-> Field(b, 13, 16), depth_height |-> Field(b, 17, 20),
         depth_size |-> ds, depth_data |-> SubSeq(b, 49, 48 + ds),
         rgb_width |-> Field(b, 25, 28), rgb_height |-> Field(b, 29, 32),
         rgb_size |-> cs, rgb_data |-> SubSeq(b, 49 + ds, 48 + ds + cs),
         ir_width |-> Field(b, 37, 40), ir_height |-> Field(b, 41, 44),
         ir_size |-> is, ir_data |-> SubSeq(b, 49 + ds + cs, 48 + ds + cs + is)]

\* a client reading a socket's bytes message by message: the frames it gets
\* and the bytes left over that are no whole message
RECURSIVE ParseStream(_)
ParseStream(b) ==
    IF Len(b) < 48 \/ Len(b) < Announced(b)
    THEN [frames |-> <<>>, rest |-> b]
    ELSE LET n == Announced(b)
             more == ParseStream(SubSeq(b, n + 1, Len(b)))
         IN  [frames |-> <<ParseMessage(SubSeq(b, 1, n))>> \o more.frames,
              rest |-> more.rest]

\* the message of a frame: header, depth bytes, RGB bytes, IR bytes
Serialized(f) == HeaderBytes(f) \o f.depth_data \o f.rgb_data \o f.ir_data

IsPrefix(a, b) == Len(a) <= Len(b) /\ SubSeq(b, 1, Len(a)) = a

\* C15: the bytes written on one client socket are whole frame messages one
\* after the other, each the header, then the depth, RGB and IR bytes in that
\* order, with the ids of the frames that handler completed; what follows the
\* last whole message is empty unless a frame is being sent or its send
\* failed, and then it is the beginning of that one frame's message.
C15_StateOk ==
    \A h \in Handlers :
        LET p == ParseStream(Flat(wire[h]))
        IN  /\ Ids(p.frames) = Received(h)
            /\ \A k \in 1 .. Len(p.frames) : p.frames[k].frame_id \in IdSet(popLog)
            /\ p.rest # <<>> =>
                  /\ hPc[h] = "send" \/ HLeft(h)
                  /\ has_frame[h]
                  /\ IsPrefix(p.rest, Serialized(h_frame[h]))
                  /\ Len(p.rest) < Len(Serialized(h_frame[h]))
            /\ (hPc[h] = "send" /\ h_part[h] # "hdr") => p.rest # <<>>

C15_StepOk ==
    \A h \in Handlers :
        HSendDone(h) =>
            Flat(MsgRecords(wire'[h], h_frame[h].frame_id)) = Serialized(h_frame[h])

C15_WholeMessages == [](C15_StateOk) /\ [][C15_StepOk]_vars

\* a client got the frame with all three planes whole, and after it the header
\* and part of a plane of the next frame, whose send failed
C15_Witness ==
    \E h \in Handlers :
        /\ HLeft(h)
        /\ Len(Received(h)) = 1
        /\ Len(wire[h]) = 6
        /\ wire[h][4].part = "ir"
        /\ ParseStream(Flat(wire[h])).rest # <<>>
        /\ Len(ParseStream(Flat(wire[h])).rest) > 48

\* C16: round trip.  Parsing the bytes of a completely sent message as
\* documented gives back the frame that was sent: the same timestamp,
\* frame_id, width, height and size of each plane, and the same plane bytes,
\* for frames with any planes present or absent.
C16_StepOk ==
    \A h \in Handlers :
        HSendDone(h) =>
            LET b == Flat(MsgRecords(wire'[h], h_frame[h].frame_id))
            IN  /\ Len(b) = Announced(b)
                /\ ParseMessage(b) = h_frame[h]

C16_RoundTrip == [][C16_StepOk]_vars

\* the frame with three planes and the frame with only an IR plane were both
\* sent whole, and the client's parse of the stream gives two frames
C16_Witness ==
    \E h \in Handlers :
        LET p == ParseStream(Flat(wire[h]))
        IN  /\ Len(p.frames) = 2
            /\ p.rest = <<>>
            /\ p.frames[1].rgb_data = <<31, 32, 33>>
            /\ p.frames[1].ir_data = <<41>>
            /\ p.frames[2].depth_size = 0
            /\ p.frames[2].ir_data = <<81, 82>>
            /\ p.frames[2].timestamp = 1000

\* the normalized plane the spec describes for a raw plane
NormalPlane(img) ==
    IF img.size > 0
    THEN [width |-> img.width, height |-> img.height, size |-> img.size,
          data |-> SubSeq(img.data, 1, img.size)]
    ELSE [width |-> 0, height |-> 0, size |-> 0, data |-> <<>>]

DepthOf(f) == [width |-> f.depth_width, height |-> f.depth_height,
               size |-> f.depth_size, data |-> f.depth_data]

RgbOf(f) == [width |-> f.rgb_width, height |-> f.rgb_height,
             size |-> f.rgb_size, data |-> f.rgb_data]

IrOf(f) == [width |-> f.ir_width, height |-> f.ir_height,
            size |-> f.ir_size, data |-> f.ir_data]

\* C17: normalization treats the depth, RGB and IR planes each on its own: a
\* raw plane reporting a size > 0 gives a plane with the raw width, height
\* and size and a copy of exactly size bytes; any other gives width = height
\* = size = 0 and no data.  Nothing else of the raw record (the point cloud)
\* changes the result.
C17_StepOk ==
    \A t \in CaptureThreads :
        (pPc[t] = "store" /\ pPc'[t] = "lock") =>
            LET raw == RawTable[pstData[t]]
                f == pFrame'[t]
            IN  /\ DepthOf(f) = NormalPlane(raw.depthImg)
                /\ RgbOf(f) = NormalPlane(raw.rgbImg)
                /\ IrOf(f) = NormalPlane(raw.irImg)
                /\ Len(f.depth_data) = f.depth_size
                /\ Len(f.rgb_data) = f.rgb_size
                /\ Len(f.ir_data) = f.ir_size
                /\ \A pc \in {NoImg, Img(1, 1, 1, <<61>>)} :
                     convertToStreamFrame([raw EXCEPT !.pointCloud = pc],
                                          f.timestamp, f.frame_id) = f

C17_Normalization == [][C17_StepOk]_vars

\* the raw record with a depth plane of size 0 and dimensions 4 x 4, an RGB
\* plane and a point cloud was normalized: depth absent, RGB copied
C17_Witness ==
    /\ pPc[1] = "lock"
    /\ pstData[1] = 3
    /\ DepthOf(pFrame[1]) = NoImg
    /\ pFrame[1].rgb_data = <<51, 52, 53>>
    /\ IrOf(pFrame[1]) = NoImg

\* the handlers that have done m_connected_clients++ (line 136) and not yet
\* m_connected_clients-- (line 171)
Counted == {h \in Handlers : hPc[h] \in {"loop", "lock", "pop", "send", "sleep",
                                         "closing", "dec"}}

\* C18: the connected-client count is the number of handlers that have entered
\* and not yet exited, never negative, and 0 once every handler that was
\* started has finished; a handler adds one to it exactly once, on entry, and
\* takes one off exactly once, on exit, and nothing else changes it.
C18_StateOk ==
    /\ m_connected_clients = Cardinality(Counted)
    /\ m_connected_clients >= 0
    /\ (\A h \in Handlers : hPc[h] \in {"unborn", "done"}) => m_connected_clients = 0

C18_StepOk ==
    /\ \A h \in Handlers :
         /\ (hPc[h] = "entry" /\ hPc'[h] # "entry") =>
               m_connected_clients' = m_connected_clients + 1
         /\ (hPc[h] = "dec" /\ hPc'[h] # "dec") =>
               /\ hPc'[h] = "done"
               /\ m_connected_clients' = m_connected_clients - 1
         /\ hPc[h] = "done" => hPc'[h] = "done"
    /\ (\A h \in Handlers : hPc[h] \in {"entry", "dec"} => hPc'[h] = hPc[h]) =>
          m_connected_clients' = m_connected_clients

C18_ClientCount == [](C18_StateOk) /\ [][C18_StepOk]_vars

\* two connections were open at once, and both handlers have finished: the
\* count is 0 again
C18_Witness ==
    /\ \A h \in Handlers : hPc[h] = "done" /\ client_socket[h] # -1
    /\ client_socket[1] # client_socket[2]
    /\ m_connected_clients = 0

\* C19: the capture path is never blocked by a client.  m_frame_mutex is held
\* by a handler only for its front()/pop() and by a capture thread only for
\* its eviction and push; no handler holds it while it is in a socket write,
\* in its idle sleep or closing.  So every pushFrame call returns, also when
\* every handler stays inside a write for ever.
C19_StateOk ==
    /\ \A h \in Handlers :
         (m_frame_mutex = HandlerOwner(h)) <=> (hPc[h] = "pop")
    /\ \A t \in CaptureThreads :
         (m_frame_mutex = PushOwner(t)) <=> (pPc[t] \in {"evict", "append"})
    /\ m_frame_mutex.kind \in {"free", "push", "handler"}

C19_CaptureNeverBlocked ==
    /\ [](C19_StateOk)
    /\ \A t \in CaptureThreads : (pPc[t] # "idle") ~> (pPc[t] = "idle")

\* both handlers are inside a write and a capture thread holds the lock for
\* its push
C19_Witness ==
    /\ \A h \in Handlers : hPc[h] = "send"
    /\ pPc[1] = "append"
    /\ m_frame_mutex = PushOwner(1)

\* the state of the handler of connection h: ACTIVE from the accept until it
\* leaves its loop, CLOSING in its clean-up (lines 169-171), CLOSED at its end
HPhase(h) ==
    CASE hPc[h] = "unborn" -> "NONE"
      [] HActive(h) -> "ACTIVE"
      [] hPc[h] \in {"closing", "dec"} -> "CLOSING"
      [] hPc[h] = "done" -> "CLOSED"

PhaseMoves ==
    {<<"NONE", "NONE">>, <<"NONE", "ACTIVE">>, <<"ACTIVE", "ACTIVE">>,
     <<"ACTIVE", "CLOSING">>, <<"CLOSING", "CLOSING">>, <<"CLOSING", "CLOSED">>,
     <<"CLOSED", "CLOSED">>}

\* C20: a handler moves only ACTIVE -> CLOSING -> CLOSED.  It becomes ACTIVE
\* when its connection is accepted, with that connection's open socket; it
\* leaves ACTIVE only from a failed send or from its loop test finding the
\* server not running; in CLOSING it closes its socket, once, which is open
\* until then; after leaving ACTIVE it neither takes a frame from the buffer
\* nor writes to the socket; and it stays CLOSED.
C20_StateOk ==
    \A h \in Handlers :
        /\ (HActive(h) \/ hPc[h] = "closing") =>
              /\ fdtab[client_socket[h]] = "client"
              /\ \A g \in Handlers \ {h} :
                   (HActive(g) \/ hPc[g] = "closing") => client_socket[g] # client_socket[h]
        /\ hPc[h] = "unborn" => client_socket[h] = -1

C20_StepOk ==
    \A h \in Handlers :
        /\ <<HPhase(h), HPhase(h)'>> \in PhaseMoves
        /\ (HPhase(h) = "NONE" /\ HPhase(h)' = "ACTIVE") =>
              /\ srvPc = "spawn"
              /\ hPc'[h] = "entry"
              /\ client_socket'[h] = srvClient
        /\ (HPhase(h) = "ACTIVE" /\ HPhase(h)' = "CLOSING") =>
              /\ hPc'[h] = "closing"
              /\ \/ hPc[h] = "send" /\ ~WholePartWritten(h)
                 \/ hPc[h] = "loop" /\ ~m_running
        /\ (hPc[h] = "closing" /\ hPc'[h] # "closing") =>
              /\ hPc'[h] = "dec"
              /\ fdtab' = [fdtab EXCEPT ![client_socket[h]] = "free"]
        /\ (hPc[h] = "dec" /\ hPc'[h] # "dec") => fdtab' = fdtab
        /\ HLeft(h) =>
              /\ wire'[h] = wire[h]
              /\ <<h_frame[h], has_frame[h], client_socket[h]>>'
                    = <<h_frame[h], has_frame[h], client_socket[h]>>
              /\ hPc'[h] # hPc[h] =>
                    UNCHANGED <<m_frame_queue, m_frame_mutex, popLog>>

C20_HandlerStates == [](C20_StateOk) /\ [][C20_StepOk]_vars

\* a handler that sent a frame found the server stopped at its loop test,
\* closed its socket and ended
C20_Witness ==
    \E h \in Handlers :
        /\ hPc[h] = "done"
        /\ ~has_frame[h]
        /\ wire[h] # <<>>
        /\ fdtab[client_socket[h]] = "free"

\* this step is accept() returning -1 to the accept loop of the running server
AcceptFailedStep ==
    /\ srvPc = "blocked"
    /\ srvPc' # "blocked"
    /\ srvClient' = -1
    /\ m_running

\* C21: when accept fails while the server is running the accept loop goes on:
\* the running flag, the listening socket and the handlers are as they were
\* and no handler is started; the loop comes back to accept (unless the server
\* is stopped meanwhile), where a connection that arrives is accepted, and an
\* accepted connection gets its handler.
C21_StateOk ==
    /\ (srvPc = "blocked" /\ nConns < Cardinality(Handlers)) =>
          ENABLED SrvAcceptConn(Cardinality(Handlers))
    /\ srvPc = "spawn" => ENABLED SrvSpawn

C21_StepOk ==
    AcceptFailedStep =>
        /\ srvPc' = "check"
        /\ UNCHANGED <<m_running, m_server_socket, fdtab, acceptLoops, nConns, hVars>>

C21_AcceptFailureContinues ==
    /\ [](C21_StateOk)
    /\ [][C21_StepOk]_vars
    /\ (srvPc = "check" /\ srvClient = -1 /\ m_running) ~> (srvPc = "blocked" \/ ~m_running)
    /\ \A h \in Handlers : (srvPc = "spawn" /\ nConns = h - 1) ~> (hPc[h] # "unborn")

\* after the first connection an accept failed, and the loop is in accept
\* again, where the second connection can be accepted
C21_Witness ==
    /\ m_running
    /\ nConns = 1
    /\ hPc[1] # "unborn"
    /\ srvClient = -1
    /\ srvPc = "blocked"
    /\ ENABLED SrvAcceptConn(Cardinality(Handlers))

\* the handlers that were started and have not closed their socket yet
HoldingSocket == {h \in Handlers : HActive(h) \/ hPc[h] = "closing"}

\* how many threads have client descriptor f in hand
Holders(f) ==
    Cardinality({h \in HoldingSocket : client_socket[h] = f})
        + (IF srvPc = "spawn" /\ srvClient = f THEN 1 ELSE 0)

\* C22: each accepted connection is handed to exactly one newly started
\* handler: as many handlers were started as connections accepted, the step
\* that starts a handler starts one, with the socket just accepted, and every
\* open client socket is in the hands of exactly one thread (its handler, or
\* the accept loop about to start the handler), so no two handlers that have
\* not closed their socket hold the same one.
C22_StateOk ==
    /\ Cardinality({h \in Handlers : hPc[h] # "unborn"}) = nConns
    /\ \A f \in FdNums : fdtab[f] = "client" => Holders(f) = 1
    /\ \A h \in HoldingSocket : fdtab[client_socket[h]] = "client"

C22_StepOk ==
    /\ (srvPc = "spawn" /\ srvPc' # "spawn") =>
          \E h \in Handlers :
              /\ hPc[h] = "unborn"
              /\ hPc'[h] = "entry"
              /\ client_socket'[h] = srvClient
              /\ \A g \in Handlers \ {h} : HState(g)' = HState(g)
    /\ srvPc # "spawn" =>
          \A h \in Handlers : hPc[h] = "unborn" => hPc'[h] = "unborn"

C22_OneHandlerPerConnection == [](C22_StateOk) /\ [][C22_StepOk]_vars

\* two connections are open at once, each with its own handler and socket
C22_Witness ==
    /\ nConns = 2
    /\ HoldingSocket = Handlers
    /\ hPc[1] = "send"
    /\ hPc[2] = "sleep"
    /\ client_socket[1] # client_socket[2]

\* the frame ids never go down along seq
NonDecreasing(seq) ==
    \A i, j \in 1 .. Len(seq) : i < j => seq[i] <= seq[j]

\* C23: frames are enqueued in ingestion order: the frame ids in the buffer
\* are strictly increasing from head to tail in every reachable state, also
\* with pushFrame running on two capture threads, and the ids popped are in
\* increasing order.
C23_QueueInIdOrder ==
    /\ StrictlyIncreasing(Ids(m_frame_queue))
    /\ StrictlyIncreasing(popLog)

\* the same with equal ids allowed next to each other (ids that are not even
\* distinct are C5's matter)
C23_QueueNeverGoesDown == NonDecreasing(Ids(m_frame_queue))

\* C24: pushFrame is a no-op whenever the server is not running, however it
\* interleaves with stop(): while the running flag is false no frame is
\* appended to the buffer.
C24_StepOk == ~m_running => pushLog' = pushLog

C24_NoPushWhileStopped == [][C24_StepOk]_vars

\* handler h holds frame id in sendFrameToClient while the flag is false
HoldsWhileStopped(h, id) ==
    hPc[h] = "send" /\ ~m_running /\ h_frame[h].frame_id = id

\* a handler that is sending while the flag is false leaves sendFrameToClient
\* only with the whole frame written, or to close after a failed write
C25_StepOk ==
    \A h \in Handlers :
        (HSendStep(h) /\ ~m_running) =>
            \/ WholePartWritten(h) /\ hPc'[h] = "send" /\ h_part'[h] # "hdr"
            \/ /\ WholePartWritten(h)
               /\ hPc'[h] = "loop"
               /\ wire'[h][Len(wire'[h])].done
               /\ SumN(MsgRecords(wire'[h], h_frame[h].frame_id))
                      = Len(Serialized(h_frame[h]))
            \/ ~WholePartWritten(h) /\ hPc'[h] = "closing"

\* C25: a handler that has popped a frame when the running flag is false
\* still writes that frame's header and every present plane (unless a write
\* fails) before it closes its socket, and it pops no further frame.
C25_StopKeepsFrameWhole ==
    /\ [][C25_StepOk]_vars
    /\ \A h \in Handlers : \A id \in 1 .. RestartFrames :
           [](HoldsWhileStopped(h, id) =>
                 [](h_frame[h].frame_id \in {id, NoFrame.frame_id}))

\* the part of C25 about the frame in transmission alone
C25_FrameInTransmission == [][C25_StepOk]_vars

\* the threads inside a buffer operation: a capture thread between the size
\* check and the append, a handler between the emptiness check and the pop
InBuffer ==
    {PushOwner(t) : t \in {u \in CaptureThreads : pPc[u] \in {"evict", "append"}}}
        \cup {HandlerOwner(h) : h \in {g \in Handlers : hPc[g] = "pop"}}

\* at most one thread is inside a buffer operation, and it holds the lock
C26_StateOk ==
    /\ Cardinality(InBuffer) <= 1
    /\ InBuffer = IF m_frame_mutex = Free THEN {} ELSE {m_frame_mutex}

\* the buffer changes, and a handler takes a frame from it, only in a step of
\* the thread that holds the lock; the frame a handler takes is the front of a
\* buffer on which no push is half done
C26_StepOk ==
    /\ m_frame_queue' # m_frame_queue =>
          /\ m_frame_mutex # Free
          /\ InBuffer = {m_frame_mutex}
          /\ \/ \E t \in CaptureThreads :
                   m_frame_mutex = PushOwner(t) /\ pPc'[t] # pPc[t]
             \/ \E h \in Handlers :
                   m_frame_mutex = HandlerOwner(h) /\ hPc'[h] # hPc[h]
    /\ \A h \in Handlers :
          (h_frame'[h] # h_frame[h] /\ h_frame'[h] # NoFrame) =>
              /\ m_frame_mutex = HandlerOwner(h)
              /\ NoPushHalfDone
              /\ m_frame_queue # <<>>
              /\ h_frame'[h] = Head(m_frame_queue)

\* C26: every read or change of the frame buffer, in pushFrame and in a
\* handler, is made by the thread holding the frame lock, so at most one
\* thread is inside a buffer operation at a time and no handler sees the
\* buffer in the middle of a push.
C26_BufferUnderLock == [](C26_StateOk) /\ [][C26_StepOk]_vars

\* a handler is at front()/pop() on a non-empty buffer while both capture
\* threads wait for the lock with their frames converted
C26_Witness ==
    /\ \E h \in Handlers : hPc[h] = "pop" /\ m_frame_mutex = HandlerOwner(h)
    /\ \A t \in CaptureThreads : pPc[t] = "lock"
    /\ m_frame_queue # <<>>

\* this step is a step of start() or stop() itself: the call, or one of its
\* statements
ControlStep == ctlPc' # ctlPc

\* no step taken while stop() is in progress removes a frame from the buffer
C27_StoppingStepOk == ctlPc \in StopPcs => IsPrefix(m_frame_queue, m_frame_queue')

\* C27 as stated: the frames present when stop() is called are still in the
\* buffer, in the same order, when it returns.
C27_BufferSurvivesStop == [][C27_StoppingStepOk]_vars

C27_StateOk == StrictlyIncreasing(Ids(m_frame_queue))

C27_StepOk ==
    /\ ControlStep =>
          /\ m_frame_queue' = m_frame_queue
          /\ <<pushLog, popLog>>' = <<pushLog, popLog>>
    /\ (ctlPc \in StopPcs /\ m_frame_queue' # m_frame_queue) =>
          \/ \E h \in Handlers :
                /\ hPc[h] = "pop"
                /\ m_frame_queue' = Tail(m_frame_queue)
                /\ h_frame'[h] = Head(m_frame_queue)
          \/ \E t \in CaptureThreads :
                /\ pPc[t] \in {"evict", "append"}
                /\ pPc'[t] # pPc[t]
    /\ popLog' # popLog =>
          /\ m_frame_queue # <<>>
          /\ popLog' = Append(popLog, Head(m_frame_queue).frame_id)
          /\ m_frame_queue' = Tail(m_frame_queue)

\* C27: no statement of stop() or start() changes the frame buffer; while
\* stop() is in progress the buffer changes only by the pop of a handler that
\* is still in its loop or by a pushFrame call in flight; the frames left are
\* in id order and every pop takes the front, so after a later start() they
\* are popped before any frame pushed later.
C27_StopLeavesBuffer == [](C27_StateOk) /\ [][C27_StepOk]_vars

\* stop() has returned on a server that still holds frames 1 and 2, with no
\* handler and no pushFrame call left
C27_Witness ==
    /\ ctlPc = "idle"
    /\ lastRet = "stop_done"
    /\ ~m_running
    /\ Ids(m_frame_queue) = <<1, 2>>
    /\ \A h \in Handlers : hPc[h] \in {"unborn", "done"}
    /\ \A t \in CaptureThreads : pPc[t] = "idle"

\* stop(), the whole body of the destructor (lines 27-29), has returned
StopReturned == ctlPc = "idle" /\ lastRet \in {"stop_done", "stop_noop"}

\* C28: when the destructor, which only calls stop(), returns, no Connection
\* Handler is ACTIVE or CLOSING, so no handler thread is left to read the
\* running flag, the buffer or the client counter of the destroyed server.
C28_NoHandlerOutlivesServer ==
    StopReturned => \A h \in Handlers : HPhase(h) \notin {"ACTIVE", "CLOSING"}

\* capture thread t returns from pushFrame in this step
PushReturns(t) == pPc[t] # "idle" /\ pPc'[t] = "idle"

\* the ids handed out so far are 1, 2, ..., k and the counter is k
C29_StateOk ==
    /\ idLog = UpTo(Len(idLog))
    /\ m_frame_counter = Len(idLog)
    /\ pushLog = UpTo(Len(pushLog))

\* a call that is dropped returns with the counter as it was; a call that is
\* accepted returns having pushed the frame whose id is the number of calls
\* accepted so far
C29_StepOk ==
    \A t \in CaptureThreads :
        PushReturns(t) =>
            IF pPc[t] = "check"
            THEN /\ pstData[t] = NULL \/ ~m_running
                 /\ m_frame_counter' = m_frame_counter
                 /\ <<idLog, pushLog>>' = <<idLog, pushLog>>
            ELSE /\ pstData[t] # NULL
                 /\ pFrame[t].frame_id = Len(pushLog) + 1
                 /\ pushLog' = Append(pushLog, Len(pushLog) + 1)
                 /\ m_frame_counter' = Len(pushLog')

\* C29: with pushFrame calls made one at a time, the k-th accepted call
\* (server running, non-null input) produces the frame with id k, and a call
\* dropped because the server is not running or the input is null consumes
\* no id.
C29_ConsecutiveIds == [](C29_StateOk) /\ [][C29_StepOk]_vars

\* three calls were accepted and got ids 1, 2, 3; a null call made after them
\* on the running server has returned, and the counter is still 3
C29_Witness ==
    /\ idLog = <<1, 2, 3>>
    /\ pushLog = <<1, 2, 3>>
    /\ m_frame_counter = 3
    /\ m_running
    /\ pPc[1] = "idle"
    /\ pstData[1] = NULL

\* C30: if the server stays running, ingestion stops (no pushFrame call is in
\* progress any more) and some handler stays ACTIVE, its writes succeeding,
\* then under weak fairness of the handlers' steps the buffer becomes empty
\* and stays empty: every frame in it is popped.
C30_Drain ==
    \A h \in Handlers :
        (<>[](InFlight = 0) /\ <>[](m_running /\ HActive(h)))
            => <>[](m_frame_queue = <<>>)

\* all frames were pushed, popped and written whole, the buffer is empty and
\* both handlers are still in their loops with no pushFrame call in progress
C30_Witness ==
    /\ m_running
    /\ InFlight = 0
    /\ Len(pushLog) >= DrainFrames
    /\ popLog = pushLog
    /\ m_frame_queue = <<>>
    /\ \A h \in Handlers : HActive(h) /\ hPc[h] # "send"
====
